---- MODULE Spec2Model ----
(***************************************************************************)
(* A model of src/main.rs: the two-hop transaction chain driven over the   *)
(* RPC interface of a regtest node.  The program is sequential: main calls *)
(* initialize_wallet, ensure_blocks_mined, mine_block, mines 100 blocks,   *)
(* create_first_transaction, generate_block, create_second_transaction and *)
(* generate_block, and returns at the first error.  The node is the        *)
(* environment: every RPC is answered from the node's state, or fails in   *)
(* transport (before the node acted, or after it acted with the response   *)
(* lost).  The node is a regtest node that answers generatetoaddress with  *)
(* the hashes of the blocks asked for and a transaction lookup with at     *)
(* least one output, so the unwrap() and [0] of the source do not panic;   *)
(* the only panic modelled is the overflow of value_sats - fee.            *)
(***************************************************************************)
EXTENDS Integers, Sequences, FiniteSets, TLC

VARIABLES
    pc,           \* main's position: the call it makes next, or how it ended
    wallet,       \* node: "absent", "unloaded" or "loaded" ('mywallet')
    height,       \* node: block count
    ownBlocks,    \* node: heights of the blocks mined to the program's address
    outputs,      \* node: first outputs of the transactions the run looks at,
                  \* [txid, value, spent]
    buildChecks,  \* the build: TRUE when integer overflow checks are compiled in
    startHeight,  \* the block count when the run began
    rpcLog,       \* every RPC the program issued, in order, with its outcome
    broadcasts,   \* every transaction handed to sendrawtransaction, in order
    coinbase_txid, first_tx, second_tx,  \* main's locals
    failure,      \* the error main logged before returning (Ok while none)
    summary,      \* the three ids of the summary lines, <<>> until they are printed
    pauses,       \* for each thread::sleep of main, the length of rpcLog then
    calls         \* the test driver of initialize_wallet: one record per call

vars == <<pc, wallet, height, ownBlocks, outputs, buildChecks, startHeight, rpcLog,
          broadcasts, coinbase_txid, first_tx, second_tx, failure, summary, pauses,
          calls>>

---------------------------------------------------------------------------
(* Bounds of the model *)

\* Calls the driver of initialize_wallet makes against one node.
MaxCalls == 2

\* Initial block counts 0 .. MaxStartHeight (both sides of the 101 threshold).
MaxStartHeight == 103

---------------------------------------------------------------------------
(* u64 arithmetic.  A u64 is four 16-bit limbs, least significant first:   *)
(* Amount::to_sat() is u64 and `fee` is inferred u64 (main.rs:292,306).    *)

Base == 2^16

U64(l0, l1, l2, l3) == <<l0, l1, l2, l3>>

Zero64 == U64(0, 0, 0, 0)

\* One limb of a - b with an incoming borrow: <<limb, outgoing borrow>>.
SubLimb(x, y, borrow) ==
    LET d == x - y - borrow
    IN  IF d < 0 THEN <<d + Base, 1>> ELSE <<d, 0>>

\* a - b modulo 2^64, with the final borrow (1 when b > a).
SubBorrow64(a, b) ==
    LET s1 == SubLimb(a[1], b[1], 0)
        s2 == SubLimb(a[2], b[2], s1[2])
        s3 == SubLimb(a[3], b[3], s2[2])
        s4 == SubLimb(a[4], b[4], s3[2])
    IN  [value |-> U64(s1[1], s2[1], s3[1], s4[1]), borrow |-> s4[2]]

Lt64(a, b) == SubBorrow64(a, b).borrow = 1

Le64(a, b) == ~Lt64(b, a)

\* let fee = 1000 (main.rs:306 and :386)
fee == U64(1000, 0, 0, 0)

\* if block_count < 101 / 101 - block_count (main.rs:241,247)
MinDepth == 101

\* client.generate_to_address(100, &address) (main.rs:78), and one block
\* fewer.
MaturityBlocksShort == 100 - 1

MaturityBlocks == 100

---------------------------------------------------------------------------
(* Results and errors.  An error carries the RPC it came from and the set  *)
(* of phrases its text contains, which is all the program reads of it.     *)

Ok == [tag |-> "Ok", rpc |-> "", msg |-> {}]

Err(rpc, msg) == [tag |-> "Err", rpc |-> rpc, msg |-> msg]

\* The arithmetic-overflow panic of a build with overflow checks.
Panic == [tag |-> "Panic", rpc |-> "", msg |-> {"attempt to subtract with overflow"}]

\* e.to_string().contains(phrase)
Contains(e, phrase) == phrase \in e.msg

\* Transport outcomes of one RPC.
Faults == {"none", "request_lost", "response_lost"}

\* A transaction id: the block whose coinbase starts the chain of spends,
\* and the output values of the spends made from it (empty: the coinbase).
NoTxid == [height |-> 0, outs |-> <<>>]

CoinbaseId(h) == [height |-> h, outs |-> <<>>]

\* The id the node computes for an encoded transaction (one input, vout 0).
TxidOf(tx) ==
    [height |-> tx.input[1].txid.height,
     outs |-> Append(tx.input[1].txid.outs, tx.output[1].value)]

\* One line of rpcLog: the function that issued the call, the method, how
\* transport went, the result the caller saw, and the call's number (block
\* count read, blocks asked for), transaction id and value where it has one.
Entry(fn, method, fault, res, n, txid, value) ==
    [fn |-> fn, method |-> method, fault |-> fault, res |-> res, n |-> n,
     txid |-> txid, value |-> value]

\* What the caller sees of the node's answer under a transport outcome.
Seen(method, fault, answer) ==
    IF fault = "none" THEN answer ELSE Err(method, {})

---------------------------------------------------------------------------
(* The node's wallet RPCs (client.create_wallet, load_wallet, list_wallets) *)

WalletStates == {"absent", "unloaded", "loaded"}

\* createwallet "mywallet": creates and loads an absent wallet.
CreateWallet(w, fault) ==
    LET acted  == fault # "request_lost"
        answer == IF w = "absent" THEN Ok
                  ELSE Err("createwallet", {"already exists"})
    IN  [res    |-> Seen("createwallet", fault, answer),
         wallet |-> IF acted /\ w = "absent" THEN "loaded" ELSE w]

\* loadwallet "mywallet": loads a wallet that exists and is not loaded.
LoadWallet(w, fault) ==
    LET acted  == fault # "request_lost"
        answer == CASE w = "unloaded" -> Ok
                    [] w = "loaded"   -> Err("loadwallet", {"already loaded"})
                    [] OTHER          -> Err("loadwallet", {})
    IN  [res    |-> Seen("loadwallet", fault, answer),
         wallet |-> IF acted /\ w = "unloaded" THEN "loaded" ELSE w]

\* listwallets: the names of the loaded wallets.
ListWallets(w, fault) ==
    [res  |-> Seen("listwallets", fault, Ok),
     list |-> IF fault = "none" /\ w = "loaded" THEN {"mywallet"} ELSE {}]

\* A wallet RPC's log line; n: how many listed wallets are named 'mywallet'.
WalletEntry(method, fault, res, n) ==
    Entry("initialize_wallet", method, fault, res, n, NoTxid, Zero64)

Listed(ls) == Cardinality(ls.list \cap {"mywallet"})

---------------------------------------------------------------------------
(* initialize_wallet (main.rs:188-235) *)

\* let wallets = client.list_wallets()?; if wallets.contains("mywallet")
\* { return Ok(()) } return Err(original)        (main.rs:214-219, 226-231),
\* and the same without the `?`: the original error whenever the wallet is
\* not known to be listed.
ListAndCheckKeepOriginal(original, ls) ==
    IF ls.res.tag = "Ok" /\ "mywallet" \in ls.list THEN Ok ELSE original

ListAndCheck(original, ls) ==
    IF ls.res.tag # "Ok" THEN ls.res
    ELSE IF "mywallet" \in ls.list THEN Ok
    ELSE original

\* A version without the fallbacks: create_wallet(...)? and nothing else.
initialize_wallet_create_only(w, f1, f2, f3) ==
    LET cr == CreateWallet(w, f1)
    IN  [result |-> cr.res, wallet |-> cr.wallet,
         log |-> <<WalletEntry("createwallet", f1, cr.res, 0)>>]

\* The whole function: the result, the node's wallet state afterwards and
\* the RPCs issued, for the transport outcomes f1 (create), f2 (load) and
\* f3 (list).
initialize_wallet(w, f1, f2, f3) ==
    LET cr == CreateWallet(w, f1)
        ld == LoadWallet(cr.wallet, f2)
        lsAfterLoad   == ListWallets(ld.wallet, f3)
        lsAfterCreate == ListWallets(cr.wallet, f3)
        ce == WalletEntry("createwallet", f1, cr.res, 0)
        le == WalletEntry("loadwallet", f2, ld.res, 0)
    IN  IF cr.res.tag = "Ok"
        THEN [result |-> Ok, wallet |-> cr.wallet, log |-> <<ce>>]
        ELSE IF Contains(cr.res, "already exists")
        THEN IF ld.res.tag = "Ok"
             THEN [result |-> Ok, wallet |-> ld.wallet, log |-> <<ce, le>>]
             ELSE IF Contains(ld.res, "already loaded")
             THEN [result |-> Ok, wallet |-> ld.wallet, log |-> <<ce, le>>]
             ELSE [result |-> ListAndCheck(ld.res, lsAfterLoad),
                   wallet |-> ld.wallet,
                   log |-> <<ce, le,
                             WalletEntry("listwallets", f3, lsAfterLoad.res,
                                         Listed(lsAfterLoad))>>]
        ELSE [result |-> ListAndCheck(cr.res, lsAfterCreate),
              wallet |-> cr.wallet,
              log |-> <<ce, WalletEntry("listwallets", f3, lsAfterCreate.res,
                                        Listed(lsAfterCreate))>>]

---------------------------------------------------------------------------
(* The node's chain RPCs.  A block is named by its height; the coinbase of *)
(* a block mined to the program's address is recorded in outputs when mined.  *)

\* getblockcount
GetBlockCount(h, fault) ==
    [res |-> Seen("getblockcount", fault, Ok), n |-> IF fault = "none" THEN h ELSE 0]

\* getnewaddress
GetNewAddress(fault) ==
    [res |-> Seen("getnewaddress", fault, Ok)]

\* generatetoaddress n: mines n blocks on top of h; block_hashes[0] is the
\* first of them.
GenerateToAddress(h, n, fault) ==
    LET acted == fault # "request_lost"
    IN  [res    |-> Seen("generatetoaddress", fault, Ok),
         height |-> IF acted THEN h + n ELSE h,
         first  |-> h + 1]

\* getblock (verbose): block.tx[0] is the block's coinbase.
GetBlockInfo(block, fault) ==
    [res |-> Seen("getblock", fault, Ok),
     tx0 |-> IF fault = "none" THEN CoinbaseId(block) ELSE NoTxid]

\* getrawtransaction (verbose): vout[0].value of a transaction the node has.
GetRawTransactionInfo(u, txid, fault) ==
    LET found  == {o \in u : o.txid = txid}
        answer == IF found = {} THEN Err("getrawtransaction", {}) ELSE Ok
        res    == Seen("getrawtransaction", fault, answer)
    IN  [res   |-> res,
         value |-> IF res.tag = "Ok" THEN (CHOOSE o \in found : TRUE).value
                   ELSE Zero64]

\* sendrawtransaction: the node accepts a transaction that spends an unspent
\* output and creates no value, and answers with its id.
SendRawTransaction(u, tx, fault) ==
    LET acted  == fault # "request_lost"
        spent  == {o \in u : /\ o.txid = tx.input[1].txid
                              /\ tx.input[1].vout = 0
                              /\ ~o.spent
                              /\ Le64(tx.output[1].value, o.value)}
        answer == IF spent = {} THEN Err("sendrawtransaction", {}) ELSE Ok
        res    == Seen("sendrawtransaction", fault, answer)
    IN  [res  |-> res,
         txid |-> IF res.tag = "Ok" THEN TxidOf(tx) ELSE NoTxid,
         outputs |->
             IF acted /\ spent # {}
             THEN (u \ spent)
                  \cup {[o EXCEPT !.spent = TRUE] : o \in spent}
                  \cup {[txid |-> TxidOf(tx), value |-> tx.output[1].value,
                         spent |-> FALSE]}
             ELSE u]

\* Values of a coinbase's first output: the regtest subsidy 50 BTC >> k
\* (5,000,000,000; 1192 and 596 after 22 and 23 halvings; 0 after 33) and
\* small values around the fee.
CoinbaseValues ==
    {U64(61952, 10757, 1, 0), U64(1192, 0, 0, 0), U64(596, 0, 0, 0), Zero64,
     U64(1000, 0, 0, 0), U64(1001, 0, 0, 0), U64(2001, 0, 0, 0), U64(500, 1, 0, 0)}

\* Transport outcomes of an RPC that changes nothing on the node.
ReadFaults == {"none", "request_lost"}

---------------------------------------------------------------------------
(* ensure_blocks_mined (main.rs:237-255) *)

\* let blocks_needed = 101 - block_count (main.rs:247), with the off-by-one
\* of a threshold taken as the maturity depth itself.
BlocksNeededOffByOne(block_count) == MaturityBlocks - block_count

BlocksNeeded(block_count) == MinDepth - block_count

\* if block_count < 101 (main.rs:241), and the test with <= in its place.
BelowOrAtMinDepth(block_count) == block_count <= MinDepth

BelowMinDepth(block_count) == block_count < MinDepth

\* The result, the node's block count afterwards and the RPCs issued.
ensure_blocks_mined(h, f1, f2, f3) ==
    LET fn == "ensure_blocks_mined"
        bc == GetBlockCount(h, f1)
        na == GetNewAddress(f2)
        blocks_needed == BlocksNeeded(bc.n)
        gen == GenerateToAddress(h, blocks_needed, f3)
        e1 == Entry(fn, "getblockcount", f1, bc.res, bc.n, NoTxid, Zero64)
        e2 == Entry(fn, "getnewaddress", f2, na.res, 0, NoTxid, Zero64)
        e3 == Entry(fn, "generatetoaddress", f3, gen.res, blocks_needed, NoTxid,
                    Zero64)
    IN  IF bc.res.tag # "Ok"
        THEN [result |-> bc.res, height |-> h, log |-> <<e1>>]
        ELSE IF BelowMinDepth(bc.n)
        THEN IF na.res.tag # "Ok"
             THEN [result |-> na.res, height |-> h, log |-> <<e1, e2>>]
             ELSE [result |-> gen.res, height |-> gen.height,
                   log |-> <<e1, e2, e3>>]
        ELSE [result |-> Ok, height |-> h, log |-> <<e1>>]

---------------------------------------------------------------------------
(* mine_block (main.rs:257-269) and generate_block (main.rs:271-278) *)

\* One block to the program's address, then its coinbase id from getblock.
mine_block(h, f1, f2) ==
    LET fn == "mine_block"
        gen == GenerateToAddress(h, 1, f1)
        blk == GetBlockInfo(gen.first, f2)
        e1 == Entry(fn, "generatetoaddress", f1, gen.res, 1, NoTxid, Zero64)
        e2 == Entry(fn, "getblock", f2, blk.res, gen.first, blk.tx0, Zero64)
        own == IF gen.height > h THEN {gen.first} ELSE {}
    IN  IF gen.res.tag # "Ok"
        THEN [result |-> gen.res, height |-> gen.height, own |-> own,
              txid |-> NoTxid, log |-> <<e1>>]
        ELSE [result |-> blk.res, height |-> gen.height, own |-> own,
              txid |-> blk.tx0, log |-> <<e1, e2>>]

\* A fresh address, then n blocks to it: generate_block with n = 1, and
\* main's maturity step (main.rs:75-90) with n = 100.
generate_to_new_address(fn, h, n, f1, f2) ==
    LET na == GetNewAddress(f1)
        gen == GenerateToAddress(h, n, f2)
        e1 == Entry(fn, "getnewaddress", f1, na.res, 0, NoTxid, Zero64)
        e2 == Entry(fn, "generatetoaddress", f2, gen.res, n, NoTxid, Zero64)
    IN  IF na.res.tag # "Ok"
        THEN [result |-> na.res, height |-> h, log |-> <<e1>>]
        ELSE [result |-> gen.res, height |-> gen.height, log |-> <<e1, e2>>]

\* generate_block asking for two blocks.
generate_two_blocks(h, f1, f2) ==
    generate_to_new_address("generate_block", h, 2, f1, f2)

generate_block(h, f1, f2) == generate_to_new_address("generate_block", h, 1, f1, f2)

---------------------------------------------------------------------------
(* create_first_transaction (main.rs:280-358) and                          *)
(* create_second_transaction (main.rs:360-438)                             *)

\* Amount::from_sat(value_sats - fee): the u64 difference and whether the
\* subtraction overflowed (main.rs:308, 388); and the same with the fee
\* left out.
OutputValueWithoutFee(value_sats) == SubBorrow64(value_sats, Zero64)

OutputValue(value_sats) == SubBorrow64(value_sats, fee)

\* OutPoint::new(txid, vout_idx) with vout_idx = 0 (main.rs:293-303).
TxIn(txid) == [txid |-> txid, vout |-> 0, sequence |-> "MAX"]

\* The transaction of main.rs:314-319.
Transaction(txin, value) ==
    [version |-> 2, lock_time |-> 0, input |-> <<txin>>,
     output |-> <<[value |-> value]>>]

\* Both functions: look the previous output up, build and sign a one-input
\* one-output transaction paying value - fee, broadcast it.  With overflow
\* checks the subtraction panics when fee > value; without, it wraps.
create_transaction(fn, u, prev_txid, checks, f1, f2) ==
    LET tx_info == GetRawTransactionInfo(u, prev_txid, f1)
        out == OutputValue(tx_info.value)
        tx == Transaction(TxIn(prev_txid), out.value)
        snd == SendRawTransaction(u, tx, f2)
        e1 == Entry(fn, "getrawtransaction", f1, tx_info.res, 0, prev_txid,
                    tx_info.value)
        e2 == Entry(fn, "sendrawtransaction", f2, snd.res, 0, snd.txid,
                    out.value)
    IN  IF tx_info.res.tag # "Ok"
        THEN [result |-> tx_info.res, txid |-> NoTxid, outputs |-> u,
              sent |-> <<>>, log |-> <<e1>>]
        ELSE IF out.borrow = 1 /\ checks
        THEN [result |-> Panic, txid |-> NoTxid, outputs |-> u, sent |-> <<>>,
              log |-> <<e1>>]
        ELSE [result |-> snd.res, txid |-> snd.txid, outputs |-> snd.outputs,
              sent |-> <<tx>>, log |-> <<e1, e2>>]

create_first_transaction(u, coinbase, checks, f1, f2) ==
    create_transaction("create_first_transaction", u, coinbase, checks, f1, f2)

create_second_transaction(u, first_txid, checks, f1, f2) ==
    create_transaction("create_second_transaction", u, first_txid, checks, f1, f2)

---------------------------------------------------------------------------
(* main (main.rs:14-151): one action per call main makes.                  *)

\* match f(..) { Ok(x) => x, Err(e) => { error!(..); return; } }: carry on
\* to the next step, stop, or unwind from a panic; here with the Err arm
\* falling through to the next step.
AfterIgnoringErrors(result, next) ==
    IF result.tag = "Panic" THEN "panicked" ELSE next

After(result, next) ==
    CASE result.tag = "Ok"    -> next
      [] result.tag = "Panic" -> "panicked"
      [] OTHER                -> "aborted"

Return(result, next) ==
    /\ pc' = After(result, next)
    /\ failure' = IF result.tag = "Ok" THEN failure ELSE result

\* thread::sleep(time::Duration::from_secs(1)), reached only on the Ok arm
\* of the step before it (main.rs:94, 121).
Sleep(result, log) ==
    pauses' = IF result.tag = "Ok" THEN Append(pauses, Len(log)) ELSE pauses

Init ==
    /\ pc = "initialize_wallet"
    /\ wallet \in WalletStates
    /\ height \in 0..MaxStartHeight
    /\ startHeight = height
    /\ ownBlocks = {}
    /\ outputs = {}
    /\ buildChecks \in BOOLEAN
    /\ rpcLog = <<>>
    /\ broadcasts = <<>>
    /\ coinbase_txid = NoTxid
    /\ first_tx = NoTxid
    /\ second_tx = NoTxid
    /\ failure = Ok
    /\ summary = <<>>
    /\ pauses = <<>>
    /\ calls = <<>>

\* main.rs:36-39
InitializeWallet ==
    /\ pc = "initialize_wallet"
    /\ \E f1 \in Faults, f2 \in Faults, f3 \in ReadFaults :
         LET o == initialize_wallet(wallet, f1, f2, f3)
         IN  /\ wallet' = o.wallet
             /\ rpcLog' = rpcLog \o o.log
             /\ Return(o.result, "ensure_blocks_mined")
    /\ UNCHANGED <<height, ownBlocks, outputs, buildChecks, startHeight, broadcasts,
                   coinbase_txid, first_tx, second_tx, summary, pauses, calls>>

\* main.rs:52-58
EnsureBlocksMined ==
    /\ pc = "ensure_blocks_mined"
    /\ \E f1 \in ReadFaults, f2 \in ReadFaults, f3 \in Faults :
         LET o == ensure_blocks_mined(height, f1, f2, f3)
         IN  /\ height' = o.height
             /\ rpcLog' = rpcLog \o o.log
             /\ Return(o.result, "mine_block")
    /\ UNCHANGED <<wallet, ownBlocks, outputs, buildChecks, startHeight, broadcasts,
                   coinbase_txid, first_tx, second_tx, summary, pauses, calls>>

\* main.rs:62-71; the node fixes the coinbase's value when it mines the block.
MineBlock ==
    /\ pc = "mine_block"
    /\ \E f1 \in Faults, f2 \in ReadFaults, v \in CoinbaseValues :
         LET o == mine_block(height, f1, f2)
         IN  /\ height' = o.height
             /\ ownBlocks' = ownBlocks \cup o.own
             /\ outputs' = outputs \cup {[txid |-> CoinbaseId(b), value |-> v,
                                          spent |-> FALSE] : b \in o.own}
             /\ coinbase_txid' = o.txid
             /\ rpcLog' = rpcLog \o o.log
             /\ Return(o.result, "mature")
    /\ UNCHANGED <<wallet, buildChecks, startHeight, broadcasts, first_tx,
                   second_tx, summary, pauses, calls>>

\* main.rs:75-94
MatureCoinbase ==
    /\ pc = "mature"
    /\ \E f1 \in ReadFaults, f2 \in Faults :
         LET o == generate_to_new_address("main", height, MaturityBlocks, f1, f2)
         IN  /\ height' = o.height
             /\ rpcLog' = rpcLog \o o.log
             /\ Sleep(o.result, rpcLog \o o.log)
             /\ Return(o.result, "create_first_transaction")
    /\ UNCHANGED <<wallet, ownBlocks, outputs, buildChecks, startHeight, broadcasts,
                   coinbase_txid, first_tx, second_tx, summary, calls>>

\* main.rs:98-107
CreateFirstTransaction ==
    /\ pc = "create_first_transaction"
    /\ \E f1 \in ReadFaults, f2 \in Faults :
         LET o == create_first_transaction(outputs, coinbase_txid, buildChecks, f1, f2)
         IN  /\ outputs' = o.outputs
             /\ broadcasts' = broadcasts \o o.sent
             /\ first_tx' = o.txid
             /\ rpcLog' = rpcLog \o o.log
             /\ Return(o.result, "confirm_first")
    /\ UNCHANGED <<wallet, height, ownBlocks, buildChecks, startHeight,
                   coinbase_txid, second_tx, summary, pauses, calls>>

\* main.rs:111-121
ConfirmFirst ==
    /\ pc = "confirm_first"
    /\ \E f1 \in ReadFaults, f2 \in Faults :
         LET o == generate_block(height, f1, f2)
         IN  /\ height' = o.height
             /\ rpcLog' = rpcLog \o o.log
             /\ Sleep(o.result, rpcLog \o o.log)
             /\ Return(o.result, "create_second_transaction")
    /\ UNCHANGED <<wallet, ownBlocks, outputs, buildChecks, startHeight, broadcasts,
                   coinbase_txid, first_tx, second_tx, summary, calls>>

\* main.rs:125-134 with &coinbase_txid passed in place of &first_tx.
CreateSecondTransactionFromCoinbase ==
    /\ pc = "create_second_transaction"
    /\ \E f1 \in ReadFaults, f2 \in Faults :
         LET o == create_second_transaction(outputs, coinbase_txid, buildChecks, f1, f2)
         IN  /\ outputs' = o.outputs
             /\ broadcasts' = broadcasts \o o.sent
             /\ second_tx' = o.txid
             /\ rpcLog' = rpcLog \o o.log
             /\ Return(o.result, "confirm_second")
    /\ UNCHANGED <<wallet, height, ownBlocks, buildChecks, startHeight,
                   coinbase_txid, first_tx, summary, pauses, calls>>

\* main.rs:125-134
CreateSecondTransaction ==
    /\ pc = "create_second_transaction"
    /\ \E f1 \in ReadFaults, f2 \in Faults :
         LET o == create_second_transaction(outputs, first_tx, buildChecks, f1, f2)
         IN  /\ outputs' = o.outputs
             /\ broadcasts' = broadcasts \o o.sent
             /\ second_tx' = o.txid
             /\ rpcLog' = rpcLog \o o.log
             /\ Return(o.result, "confirm_second")
    /\ UNCHANGED <<wallet, height, ownBlocks, buildChecks, startHeight,
                   coinbase_txid, first_tx, summary, pauses, calls>>

\* main.rs:138-150: the last block, then the summary lines.
ConfirmSecond ==
    /\ pc = "confirm_second"
    /\ \E f1 \in ReadFaults, f2 \in Faults :
         LET o == generate_block(height, f1, f2)
         IN  /\ height' = o.height
             /\ rpcLog' = rpcLog \o o.log
             /\ Return(o.result, "done")
             /\ summary' = IF After(o.result, "done") = "done"
                            THEN <<coinbase_txid, first_tx, second_tx>>
                            ELSE summary
    /\ UNCHANGED <<wallet, ownBlocks, outputs, buildChecks, startHeight, broadcasts,
                   coinbase_txid, first_tx, second_tx, pauses, calls>>

Next ==
    \/ InitializeWallet
    \/ EnsureBlocksMined
    \/ MineBlock
    \/ MatureCoinbase
    \/ CreateFirstTransaction
    \/ ConfirmFirst
    \/ CreateSecondTransaction
    \/ ConfirmSecond

Spec == Init /\ [][Next]_vars

---------------------------------------------------------------------------
(* initialize_wallet called repeatedly against one node.                   *)

InitWallet ==
    /\ pc = "driver"
    /\ wallet \in WalletStates
    /\ height = 0
    /\ startHeight = 0
    /\ ownBlocks = {}
    /\ outputs = {}
    /\ buildChecks = TRUE
    /\ rpcLog = <<>>
    /\ broadcasts = <<>>
    /\ coinbase_txid = NoTxid
    /\ first_tx = NoTxid
    /\ second_tx = NoTxid
    /\ failure = Ok
    /\ summary = <<>>
    /\ pauses = <<>>
    /\ calls = <<>>

CallInitializeWallet ==
    /\ pc = "driver"
    /\ Len(calls) < MaxCalls
    /\ \E f1 \in Faults, f2 \in Faults, f3 \in ReadFaults :
         LET o == initialize_wallet(wallet, f1, f2, f3)
         IN  /\ wallet' = o.wallet
             /\ calls' = Append(calls, [before |-> wallet, result |-> o.result,
                                        log |-> o.log, after |-> o.wallet])
    /\ UNCHANGED <<pc, height, ownBlocks, outputs, buildChecks, startHeight, rpcLog,
                   broadcasts, coinbase_txid, first_tx, second_tx, failure,
                   summary, pauses>>

NextWallet == CallInitializeWallet

SpecWallet == InitWallet /\ [][NextWallet]_vars

---------------------------------------------------------------------------
(* Properties of a run of main                                             *)

\* The lines of rpcLog a function issued, in order.
IssuedBy(fn) == SelectSeq(rpcLog, LAMBDA e : e.fn = fn)

Issued(method) == SelectSeq(rpcLog, LAMBDA e : e.method = method)

AllRpcsSucceeded == \A i \in DOMAIN rpcLog : rpcLog[i].res.tag = "Ok"

\* C1 as stated: a run from block height 0 in which every RPC call
\* succeeds ends at block height 103.
C1_FinalHeight103 ==
    (pc = "done" /\ startHeight = 0 /\ AllRpcsSucceeded) => height = 103

\* C1 as amended: a run from block height 0 in which every RPC call
\* succeeds ends at block height 204: the 101 blocks ensure_blocks_mined
\* mines, the coinbase block, the 100 maturity blocks and the two
\* confirmation blocks.
C1_FinalHeight204 ==
    (pc = "done" /\ startHeight = 0 /\ AllRpcsSucceeded)
        => height = MinDepth + 1 + MaturityBlocks + 1 + 1

C1_Witness ==
    /\ pc = "done" /\ startHeight = 0 /\ AllRpcsSucceeded
    /\ Len(Issued("generatetoaddress")) = 5
    /\ height = 204

\* C2: whenever create_first_transaction or create_second_transaction has
\* looked up an input value V <= fee, the run fails with an explicit
\* insufficient-funds error, the function issues no sendrawtransaction,
\* and no output value is V - fee wrapped modulo 2^64.
C2_FeeUnderflowRejected ==
    \A i \in DOMAIN rpcLog :
        (/\ rpcLog[i].method = "getrawtransaction"
         /\ rpcLog[i].res.tag = "Ok"
         /\ Le64(rpcLog[i].value, fee))
        => /\ failure.tag = "Err"
           /\ Contains(failure, "insufficient funds")
           /\ \A j \in DOMAIN rpcLog :
                 j > i => ~(/\ rpcLog[j].method = "sendrawtransaction"
                            /\ rpcLog[j].fn = rpcLog[i].fn)
           /\ \A k \in DOMAIN broadcasts :
                 broadcasts[k].input[1].txid = rpcLog[i].txid
                     => ~Lt64(rpcLog[i].value, broadcasts[k].output[1].value)

\* C4: ensure_blocks_mined asks for an address and generates blocks only
\* when the count it read is below 101, then in one generate call for
\* exactly 101 - count blocks; when it has returned Ok it issued the three
\* calls (below 101) or the count alone (101 or more), and the block count
\* is at least 101.
C4_EnsureBlocksMined ==
    LET E == IssuedBy("ensure_blocks_mined")
    IN  /\ \A i \in DOMAIN E :
              /\ i = 1 <=> E[i].method = "getblockcount"
              /\ i > 1 => E[1].res.tag = "Ok" /\ E[1].n < 101
              /\ E[i].method = "generatetoaddress"
                    => i = 3 /\ E[i].n = 101 - E[1].n
        /\ Len(E) <= 3
        /\ pc = "mine_block"
              => /\ E # <<>> /\ E[1].n = startHeight
                 /\ IF E[1].n < 101
                    THEN /\ Len(E) = 3
                         /\ E[2].method = "getnewaddress"
                         /\ E[3].method = "generatetoaddress"
                         /\ E[3].res.tag = "Ok"
                         /\ height - startHeight = 101 - E[1].n
                    ELSE Len(E) = 1 /\ height = startHeight
                 /\ height >= 101

C4_Witness ==
    /\ pc = "mine_block"
    /\ startHeight = 37
    /\ height = 101
    /\ \E i \in DOMAIN rpcLog :
         /\ rpcLog[i].fn = "ensure_blocks_mined"
         /\ rpcLog[i].method = "generatetoaddress"
         /\ rpcLog[i].n = 64

\* C5: an RPC issued after initialize_wallet that failed is the last RPC
\* of the run: main has returned, nothing was issued or broadcast after
\* it, and the summary was not printed; the summary is printed only at the
\* end of a run whose calls after initialize_wallet all succeeded; every
\* broadcast is a sendrawtransaction of the log.
C5_AbortOnFailure ==
    /\ \A i \in DOMAIN rpcLog :
          (rpcLog[i].fn # "initialize_wallet" /\ rpcLog[i].res.tag # "Ok")
          => /\ i = Len(rpcLog)
             /\ pc = "aborted"
             /\ failure = rpcLog[i].res
             /\ summary = <<>>
    /\ summary # <<>>
          => /\ pc = "done"
             /\ \A i \in DOMAIN rpcLog :
                   rpcLog[i].fn # "initialize_wallet" => rpcLog[i].res.tag = "Ok"
    /\ Len(broadcasts) = Len(Issued("sendrawtransaction"))
    /\ pc = "done" => summary # <<>>

C5_Witness ==
    /\ pc = "aborted"
    /\ Len(broadcasts) = 1
    /\ rpcLog[Len(rpcLog)].fn = "generate_block"
    /\ rpcLog[Len(rpcLog)].res.tag = "Err"
    /\ summary = <<>>

\* C6: the first transaction broadcast has one input, output 0 of the
\* coinbase id getblock returned for the block mined to the program's
\* address; the second has one input, output 0 of the id the node returned
\* for the first broadcast; the summary holds exactly these three ids,
\* which are pairwise distinct.
C6_ChainLinked ==
    LET sends == Issued("sendrawtransaction")
        blocks == Issued("getblock")
    IN  /\ Len(broadcasts) >= 1
              => /\ Len(blocks) = 1 /\ blocks[1].res.tag = "Ok"
                 /\ blocks[1].n \in ownBlocks
                 /\ blocks[1].txid = CoinbaseId(blocks[1].n)
                 /\ Len(broadcasts[1].input) = 1
                 /\ broadcasts[1].input[1].txid = blocks[1].txid
                 /\ broadcasts[1].input[1].vout = 0
        /\ Len(broadcasts) >= 2
              => /\ sends[1].res.tag = "Ok"
                 /\ Len(broadcasts[2].input) = 1
                 /\ broadcasts[2].input[1].txid = sends[1].txid
                 /\ broadcasts[2].input[1].vout = 0
        /\ Len(broadcasts) <= 2
        /\ summary # <<>>
              => /\ Len(sends) = 2
                 /\ summary = <<blocks[1].txid, sends[1].txid, sends[2].txid>>
                 /\ summary[1] # summary[2]
                 /\ summary[1] # summary[3]
                 /\ summary[2] # summary[3]

C6_Witness ==
    /\ pc = "done"
    /\ Len(summary) = 3
    /\ Len(broadcasts) = 2
    /\ broadcasts[2].input[1].txid = summary[2]
    /\ broadcasts[1].input[1].txid = summary[1]

\* C8: a transaction handed to sendrawtransaction after a lookup of an
\* input value V > fee has one input and one output of value exactly
\* V - fee; when both broadcasts succeeded, the second output is the
\* coinbase value minus twice the fee.
C8_OutputIsValueMinusFee ==
    LET lookups == Issued("getrawtransaction")
        sends == Issued("sendrawtransaction")
    IN  /\ \A k \in DOMAIN broadcasts :
              /\ Len(broadcasts[k].input) = 1
              /\ Len(broadcasts[k].output) = 1
              /\ lookups[k].res.tag = "Ok"
              /\ lookups[k].txid = broadcasts[k].input[1].txid
              /\ Lt64(fee, lookups[k].value)
                    => /\ SubBorrow64(lookups[k].value, fee).borrow = 0
                       /\ broadcasts[k].output[1].value
                              = SubBorrow64(lookups[k].value, fee).value
                       /\ SubBorrow64(lookups[k].value,
                                       broadcasts[k].output[1].value).value = fee
        /\ (Len(sends) = 2 /\ sends[1].res.tag = "Ok" /\ sends[2].res.tag = "Ok")
              => LET once == SubBorrow64(lookups[1].value, fee)
                     twice == SubBorrow64(once.value, fee)
                 IN  /\ once.borrow = 0 /\ twice.borrow = 0
                     /\ broadcasts[2].output[1].value = twice.value

C8_Witness ==
    /\ pc = "done"
    /\ Len(broadcasts) = 2
    /\ broadcasts[1].output[1].value = U64(60952, 10757, 1, 0)
    /\ broadcasts[2].output[1].value = U64(59952, 10757, 1, 0)

\* C9: once the first transaction has been handed to sendrawtransaction,
\* the coinbase it spends is that of the block mine_block mined to the
\* program's address, a block above those ensure_blocks_mined mined, with
\* at least 100 blocks on top of it.
C9_CoinbaseMature ==
    Len(broadcasts) >= 1
        => LET spent == broadcasts[1].input[1].txid
               primed == IssuedBy("ensure_blocks_mined")
           IN  /\ spent = CoinbaseId(spent.height)
               /\ spent.height \in ownBlocks
               /\ height - spent.height >= 100
               /\ \A i \in DOMAIN primed :
                     primed[i].method = "generatetoaddress"
                         => spent.height > startHeight + primed[i].n
               /\ spent.height > startHeight

C9_Witness ==
    /\ pc = "confirm_first"
    /\ startHeight = 0
    /\ Len(broadcasts) = 1
    /\ broadcasts[1].input[1].txid = CoinbaseId(102)
    /\ height = 202

\* The parts of C10 that do not concern the pause: a successful broadcast
\* is followed, if by anything, by generate_block's request for a fresh
\* address and then for exactly one block; and create_second_transaction
\* issues nothing before the block confirming the first transaction is
\* mined and main has paused after it.
ConfirmationFollows ==
    /\ \A i \in DOMAIN rpcLog :
          (rpcLog[i].method = "sendrawtransaction" /\ rpcLog[i].res.tag = "Ok")
          => /\ i + 1 \in DOMAIN rpcLog
                   => /\ rpcLog[i + 1].fn = "generate_block"
                      /\ rpcLog[i + 1].method = "getnewaddress"
             /\ i + 2 \in DOMAIN rpcLog
                   => /\ rpcLog[i + 1].res.tag = "Ok"
                      /\ rpcLog[i + 2].fn = "generate_block"
                      /\ rpcLog[i + 2].method = "generatetoaddress"
                      /\ rpcLog[i + 2].n = 1
             /\ i + 3 \in DOMAIN rpcLog => rpcLog[i + 2].res.tag = "Ok"
    /\ \A j \in DOMAIN rpcLog :
          rpcLog[j].fn = "create_second_transaction"
          => \E i \in 1..(j - 1) :
                /\ rpcLog[i].fn = "generate_block"
                /\ rpcLog[i].method = "generatetoaddress"
                /\ rpcLog[i].res.tag = "Ok"
                /\ i > 2 /\ rpcLog[i - 2].fn = "create_first_transaction"
                /\ rpcLog[i - 2].method = "sendrawtransaction"
                /\ \E p \in DOMAIN pauses : pauses[p] = i

\* The generate_block calls that mined their block, by position in rpcLog.
Confirmations ==
    {i \in DOMAIN rpcLog : /\ rpcLog[i].fn = "generate_block"
                            /\ rpcLog[i].method = "generatetoaddress"
                            /\ rpcLog[i].res.tag = "Ok"}

\* C10 as stated: in addition, main pauses after each of the two
\* confirming blocks.
C10_PauseAfterEachConfirmation ==
    /\ ConfirmationFollows
    /\ \A i \in Confirmations : \E p \in DOMAIN pauses : pauses[p] = i

\* C10 as amended: main pauses after the block confirming the first
\* transaction and not after the block confirming the second, which is
\* followed directly by the summary; its other pause follows the 100
\* maturity blocks.
C10_PauseAfterFirstConfirmation ==
    /\ ConfirmationFollows
    /\ \A i \in Confirmations :
          (\E p \in DOMAIN pauses : pauses[p] = i)
              <=> rpcLog[i - 2].fn = "create_first_transaction"
    /\ \A i \in Confirmations :
          rpcLog[i - 2].fn = "create_second_transaction"
              => i = Len(rpcLog) /\ pc = "done" /\ summary # <<>>
    /\ Len(pauses) <= 2
    /\ \A p \in DOMAIN pauses :
          /\ rpcLog[pauses[p]].method = "generatetoaddress"
          /\ rpcLog[pauses[p]].res.tag = "Ok"
          /\ p = 1 => rpcLog[pauses[p]].fn = "main" /\ rpcLog[pauses[p]].n = 100
          /\ p = 2 => pauses[p] \in Confirmations

C10_Witness ==
    /\ pc = "done"
    /\ Len(pauses) = 2
    /\ Cardinality(Confirmations) = 2
    /\ pauses[2] \in Confirmations
    /\ Len(rpcLog) \in Confirmations
    /\ \A p \in DOMAIN pauses : pauses[p] # Len(rpcLog)

---------------------------------------------------------------------------
(* Properties of initialize_wallet                                         *)

\* The node answered every request of the call.
Answered(c) == \A i \in DOMAIN c.log : c.log[i].fault = "none"

Tolerated == {"already exists", "already loaded"}

\* The requests of the call that failed in transport.
Lost(c) == {i \in DOMAIN c.log : c.log[i].fault # "none"}

\* C3: a call of initialize_wallet that follows a call that returned Ok
\* returns Ok, whatever the wallet's state was at first, when the node
\* answers its requests, and even when one of them fails in transport; and
\* no call returns an error that says 'already exists' or 'already loaded'.
C3_Idempotent ==
    \A k \in DOMAIN calls :
        /\ (k > 1 /\ calls[k - 1].result = Ok /\ Cardinality(Lost(calls[k])) <= 1)
              => calls[k].result = Ok
        /\ calls[k].result.tag = "Err" => calls[k].result.msg \cap Tolerated = {}

C3_Witness ==
    /\ Len(calls) = 2
    /\ calls[1].before = "unloaded"
    /\ calls[1].result = Ok /\ calls[2].result = Ok
    /\ Answered(calls[1]) /\ Answered(calls[2])
    /\ Len(calls[2].log) = 2
    /\ Contains(calls[2].log[1].res, "already exists")
    /\ Contains(calls[2].log[2].res, "already loaded")

\* The decision of one call read off the RPCs it issued; onListFailure is
\* what the call returns when listwallets itself failed, given the original
\* error and the list error.
Decision(c, onListFailure(_, _)) ==
    LET L == c.log
        cr == L[1].res
        Fallback(original, ls) ==
            /\ ls.method = "listwallets"
            /\ c.result = IF ls.res.tag # "Ok" THEN onListFailure(original, ls.res)
                           ELSE IF ls.n > 0 THEN Ok
                           ELSE original
    IN  /\ L[1].method = "createwallet"
        /\ IF cr.tag = "Ok"
           THEN Len(L) = 1 /\ c.result = Ok
           ELSE IF Contains(cr, "already exists")
           THEN /\ Len(L) >= 2
                /\ L[2].method = "loadwallet"
                /\ IF L[2].res.tag = "Ok" \/ Contains(L[2].res, "already loaded")
                   THEN Len(L) = 2 /\ c.result = Ok
                   ELSE Len(L) = 3 /\ Fallback(L[2].res, L[3])
           ELSE Len(L) = 2 /\ Fallback(cr, L[2])

KeepOriginal(original, listError) == original

ReturnListError(original, listError) == listError

\* C7 as stated: the decision table of initialize_wallet, where a fallback
\* that does not find 'mywallet' listed returns the original create or load
\* error, never a different one.
C7_OriginalErrorAlways == \A k \in DOMAIN calls : Decision(calls[k], KeepOriginal)

\* C7 as amended: the same decision table, except that when listwallets
\* itself fails the call returns the listwallets error in place of the
\* original create or load error.
C7_FallbackDecision == \A k \in DOMAIN calls : Decision(calls[k], ReturnListError)

C7_Witness ==
    \E k \in DOMAIN calls :
        LET L == calls[k].log
        IN  /\ Len(L) = 3
            /\ Contains(L[1].res, "already exists")
            /\ L[2].res.tag = "Err" /\ ~Contains(L[2].res, "already loaded")
            /\ L[3].res.tag = "Err"
            /\ calls[k].result = L[3].res
            /\ calls[k].result # L[2].res

====
